---- MODULE Spec2Model ----
(***************************************************************************)
(* Model of WatchRoomServer (watch-room-server.ts): the in-memory room,    *)
(* membership and session-pointer maps, every socket event handler, the    *)
(* shared leave routine and the cleanup timer.  Each handler runs to       *)
(* completion on the single event loop, so each is one atomic action.      *)
(*                                                                         *)
(* Time is Date.now() in milliseconds.  Broadcast groups are the           *)
(* socket.io rooms a socket has joined: socket.to(r) reaches the group's   *)
(* sockets except the sender, io.to(r) reaches all of them, and a socket   *)
(* has left every group by the time its 'disconnect' handler runs.         *)
(* Payload-only fields (names, description, isPublic, createdAt,           *)
(* ownerToken, chat content) decide nothing and are left out, and so are   *)
(* room:list and the voice:* relays, which write none of the maps and      *)
(* address no room group.  generateRoomId is taken to return an id that    *)
(* was never used before.                                                  *)
(***************************************************************************)
EXTENDS Integers, Sequences, FiniteSets, TLC

VARIABLES conns, rooms, members, socketToRoom, subs, now, created,
          emitted, reply, gone

vars == <<conns, rooms, members, socketToRoom, subs, now, created,
          emitted, reply, gone>>

(* ----------------------------- bounds ---------------------------------- *)
NConns == 2
MaxRooms == 2

Conns == 1..NConns
RoomIds == 1..MaxRooms

(* ------------------------- program constants --------------------------- *)
deleteTimeout == 5 * 60 * 1000
clearStateTimeout == 30 * 1000

Null == "null"
Undefined == "undefined"
authKey == "secret"
Tokens == {Undefined, "", "secret", "wrong"}
(* room:create and room:join payloads: rooms without a password ... *)
OpenPasswords == {""}
OpenJoinPasswords == {Undefined, "a"}
(* ... and with one *)
CreatePasswords == {"", "a"}
JoinPasswords == {Undefined, "", "a", "b"}
PlayStates == {"s1"}
(* the instants at which handlers and the timer observe Date.now(): a heartbeat
   at 0 is exactly deleteTimeout old at the second instant and older at the
   third, where a heartbeat of the second instant is exactly clearStateTimeout old *)
Times == {0, deleteTimeout, deleteTimeout + clearStateTimeout}
NoReply == [op |-> "none"]

(* ------------------------------ Map helpers ---------------------------- *)
EmptyMap == [x \in {} |-> Null]
MapSet(m, k, v) == [x \in (DOMAIN m) \cup {k} |-> IF x = k THEN v ELSE m[x]]
MapDelete(m, k) == [x \in (DOMAIN m) \ {k} |-> m[x]]
MapHas(m, k) == k \in DOMAIN m

(* JavaScript truthiness of an optional string *)
Truthy(s) == s # Undefined /\ s # ""

(* --------------------------- socket.io groups -------------------------- *)
InGroup(groups, r) == {d \in Conns : r \in groups[d]}
(* socket.to(r).emit(ev, arg): the group except the sender *)
SocketTo(groups, c, r, ev, arg) ==
  [ev |-> ev, room |-> r, from |-> c, to |-> InGroup(groups, r) \ {c}, arg |-> arg]
(* io.to(r).emit(ev, arg): the whole group *)
IoTo(groups, r, ev, arg) ==
  [ev |-> ev, room |-> r, from |-> 0, to |-> InGroup(groups, r), arg |-> arg]

(* The handler that ran has handed its emissions and its callback reply to
   the transport; the event loop runs the next handler after that. *)
Idle == emitted = <<>> /\ reply = NoReply

Init ==
  /\ conns = [c \in Conns |-> "new"]
  /\ rooms = EmptyMap
  /\ members = EmptyMap
  /\ socketToRoom = EmptyMap
  /\ subs = [c \in Conns |-> {}]
  /\ now = 0
  /\ created = 0
  /\ emitted = <<>>
  /\ reply = NoReply
  /\ gone = EmptyMap

(* io.on('connection'): the handshake token check.  Socket ids are
   interchangeable, so they are handed out in increasing order. *)
Connect(c, token) ==
  /\ Idle
  /\ conns[c] = "new"
  /\ \A d \in Conns : d < c => conns[d] # "new"
  /\ IF ~Truthy(token) \/ token # authKey
       THEN /\ conns' = [conns EXCEPT ![c] = "closed"]
            /\ emitted' = <<[ev |-> "error", room |-> 0, from |-> 0, to |-> {c},
                             arg |-> "Unauthorized"]>>
       ELSE /\ conns' = [conns EXCEPT ![c] = "open"]
            /\ emitted' = <<>>
  /\ reply' = NoReply
  /\ UNCHANGED <<rooms, members, socketToRoom, subs, now, created, gone>>

(* socket.on('room:create') *)
RoomCreate(c, pw) ==
  /\ Idle
  /\ conns[c] = "open"
  /\ created < MaxRooms
  /\ LET roomId == created + 1
         room == [password |-> pw, ownerId |-> c, memberCount |-> 1,
                  currentState |-> Null, lastOwnerHeartbeat |-> now]
         member == [isOwner |-> TRUE, lastHeartbeat |-> now]
     IN /\ rooms' = MapSet(rooms, roomId, room)
        /\ members' = MapSet(members, roomId, MapSet(EmptyMap, c, member))
        /\ socketToRoom' = MapSet(socketToRoom, c,
                                  [roomId |-> roomId, userId |-> c, isOwner |-> TRUE])
        /\ subs' = [subs EXCEPT ![c] = @ \cup {roomId}]
        /\ created' = roomId
        /\ reply' = [op |-> "room:create", to |-> c, success |-> TRUE, room |-> room]
        /\ emitted' = <<>>
  /\ UNCHANGED <<conns, now, gone>>

(* room.password && room.password !== data.password *)
badPasswordIgnoresMissing(room, pw) ==
  Truthy(room.password) /\ Truthy(pw) /\ room.password # pw

badPassword(room, pw) ==
  Truthy(room.password) /\ room.password # pw

(* socket.to(data.roomId).emit('room:member-joined', member) *)
joinAnnounceToAll(groups, c, roomId) ==
  IoTo(groups, roomId, "room:member-joined", c)

joinAnnounce(groups, c, roomId) ==
  SocketTo(groups, c, roomId, "room:member-joined", c)

(* this.socketToRoom.set(socket.id, {roomId, userId, userName, isOwner: false}) *)
joinRoomInfoAsOwner(c, roomId) ==
  [roomId |-> roomId, userId |-> c, isOwner |-> TRUE]

joinRoomInfo(c, roomId) ==
  [roomId |-> roomId, userId |-> c, isOwner |-> FALSE]

(* socket.on('room:join') *)
RoomJoin(c, roomId, pw) ==
  /\ Idle
  /\ conns[c] = "open"
  /\ IF ~MapHas(rooms, roomId)
       THEN /\ reply' = [op |-> "room:join", to |-> c, success |-> FALSE,
                         error |-> "room-not-found"]
            /\ emitted' = <<>>
            /\ UNCHANGED <<rooms, members, socketToRoom, subs>>
     ELSE IF badPassword(rooms[roomId], pw)
       THEN /\ reply' = [op |-> "room:join", to |-> c, success |-> FALSE,
                         error |-> "bad-password"]
            /\ emitted' = <<>>
            /\ UNCHANGED <<rooms, members, socketToRoom, subs>>
     ELSE LET member == [isOwner |-> FALSE, lastHeartbeat |-> now]
              hasMembers == MapHas(members, roomId)
              roomMembers == IF hasMembers THEN MapSet(members[roomId], c, member)
                             ELSE EmptyMap
              room == IF hasMembers
                        THEN [rooms[roomId] EXCEPT
                                !.memberCount = Cardinality(DOMAIN roomMembers)]
                        ELSE rooms[roomId]
              groups == [subs EXCEPT ![c] = @ \cup {roomId}]
          IN /\ members' = IF hasMembers THEN MapSet(members, roomId, roomMembers)
                           ELSE members
             /\ rooms' = MapSet(rooms, roomId, room)
             /\ socketToRoom' = MapSet(socketToRoom, c, joinRoomInfo(c, roomId))
             /\ subs' = groups
             /\ emitted' = <<joinAnnounce(groups, c, roomId)>>
             /\ reply' = [op |-> "room:join", to |-> c, success |-> TRUE,
                          room |-> room, members |-> roomMembers]
  /\ UNCHANGED <<conns, now, created, gone>>

(* deleteRoom(roomId), on the maps and the emission list of the running handler *)
deleteRoomKeepsRoom(st, roomId, via) ==
  [st EXCEPT !.emitted = Append(@, IoTo(st.subs, roomId, "room:deleted", Null)),
             !.members = MapDelete(@, roomId),
             !.gone = MapSet(@, roomId, via)]

deleteRoomKeepsMembers(st, roomId, via) ==
  [st EXCEPT !.emitted = Append(@, IoTo(st.subs, roomId, "room:deleted", Null)),
             !.rooms = MapDelete(@, roomId),
             !.gone = MapSet(@, roomId, via)]

deleteRoom(st, roomId, via) ==
  [st EXCEPT !.emitted = Append(@, IoTo(st.subs, roomId, "room:deleted", Null)),
             !.rooms = MapDelete(@, roomId),
             !.members = MapDelete(@, roomId),
             !.gone = MapSet(@, roomId, via)]

(* room.memberCount = roomMembers.size, after roomMembers.delete(userId) *)
leaveMemberCountBeforeDelete(roomMembers) == Cardinality(DOMAIN roomMembers) + 1

leaveMemberCount(roomMembers) == Cardinality(DOMAIN roomMembers)

(* if (roomMembers.size === 0) *)
lastMemberLeftNever(roomMembers) == FALSE

lastMemberLeft(roomMembers) == Cardinality(DOMAIN roomMembers) = 0

(* handleLeaveRoom(socket); groups are the socket.io groups at the call *)
handleLeaveRoom(c, groups) ==
  LET st0 == [rooms |-> rooms, members |-> members, socketToRoom |-> socketToRoom,
              subs |-> groups, emitted |-> <<>>, gone |-> gone]
  IN IF ~MapHas(socketToRoom, c) THEN st0
     ELSE LET roomInfo == socketToRoom[c]
              roomId == roomInfo.roomId
              userId == roomInfo.userId
              st1 == IF MapHas(members, roomId)
                       THEN LET roomMembers == MapDelete(members[roomId], userId)
                                a == [st0 EXCEPT !.members[roomId] = roomMembers]
                                b == IF MapHas(rooms, roomId)
                                       THEN [a EXCEPT !.rooms[roomId].memberCount =
                                                        leaveMemberCount(roomMembers)]
                                       ELSE a
                                d == [b EXCEPT !.emitted =
                                        Append(@, SocketTo(groups, c, roomId,
                                                           "room:member-left", userId))]
                            IN IF lastMemberLeft(roomMembers)
                                 THEN deleteRoom(d, roomId, "leave")
                                 ELSE d
                       ELSE st0
          IN [st1 EXCEPT !.subs[c] = @ \ {roomId},
                         !.socketToRoom = MapDelete(@, c)]

ApplyLeave(st) ==
  /\ rooms' = st.rooms
  /\ members' = st.members
  /\ socketToRoom' = st.socketToRoom
  /\ subs' = st.subs
  /\ emitted' = st.emitted
  /\ gone' = st.gone

(* socket.on('room:leave') *)
RoomLeave(c) ==
  /\ Idle
  /\ conns[c] = "open"
  /\ ApplyLeave(handleLeaveRoom(c, subs))
  /\ reply' = NoReply
  /\ UNCHANGED <<conns, now, created>>

(* socket.on('disconnect'): socket.io has already removed the socket from
   every group when the handler runs *)
Disconnect(c) ==
  /\ Idle
  /\ conns[c] = "open"
  /\ conns' = [conns EXCEPT ![c] = "closed"]
  /\ ApplyLeave(handleLeaveRoom(c, [subs EXCEPT ![c] = {}]))
  /\ reply' = NoReply
  /\ UNCHANGED <<now, created>>

(* if (!roomInfo || !roomInfo.isOwner) return *)
notOwnerIgnoresFlag(c) == ~MapHas(socketToRoom, c)

notOwner(c) == ~MapHas(socketToRoom, c) \/ ~socketToRoom[c].isOwner

(* play:update, play:change and live:change have the same body *)
OwnerStateEvent(c, ev, state) ==
  /\ Idle
  /\ conns[c] = "open"
  /\ IF notOwner(c)
       THEN /\ emitted' = <<>>
            /\ UNCHANGED rooms
       ELSE LET roomId == socketToRoom[c].roomId
            IN IF MapHas(rooms, roomId)
                 THEN /\ rooms' = [rooms EXCEPT ![roomId].currentState = state]
                      /\ emitted' = <<SocketTo(subs, c, roomId, ev, state)>>
                 ELSE /\ emitted' = <<>>
                      /\ UNCHANGED rooms
  /\ reply' = NoReply
  /\ UNCHANGED <<conns, members, socketToRoom, subs, now, created, gone>>

PlayUpdate(c, state) == OwnerStateEvent(c, "play:update", state)
PlayChange(c, state) == OwnerStateEvent(c, "play:change", state)
LiveChange(c, state) == OwnerStateEvent(c, "live:change", state)

(* play:seek, play:play and play:pause: relays with no ownership check *)
Relay(c, ev) ==
  /\ Idle
  /\ conns[c] = "open"
  /\ emitted' = IF MapHas(socketToRoom, c)
                  THEN <<SocketTo(subs, c, socketToRoom[c].roomId, ev, Null)>>
                  ELSE <<>>
  /\ reply' = NoReply
  /\ UNCHANGED <<conns, rooms, members, socketToRoom, subs, now, created, gone>>

PlaySeek(c) == Relay(c, "play:seek")
PlayPlay(c) == Relay(c, "play:play")
PlayPause(c) == Relay(c, "play:pause")

(* this.io.to(roomInfo.roomId).emit('chat:message', message) *)
chatAnnounceToOthers(c, roomId) == SocketTo(subs, c, roomId, "chat:message", c)

chatAnnounce(c, roomId) == IoTo(subs, roomId, "chat:message", c)

(* socket.on('chat:message') *)
ChatMessage(c) ==
  /\ Idle
  /\ conns[c] = "open"
  /\ emitted' = IF MapHas(socketToRoom, c)
                  THEN <<chatAnnounce(c, socketToRoom[c].roomId)>>
                  ELSE <<>>
  /\ reply' = NoReply
  /\ UNCHANGED <<conns, rooms, members, socketToRoom, subs, now, created, gone>>

(* socket.to(roomInfo.roomId).emit('state:cleared') *)
clearAnnounceToAll(c, roomId) == IoTo(subs, roomId, "state:cleared", Null)

clearAnnounce(c, roomId) == SocketTo(subs, c, roomId, "state:cleared", Null)

(* socket.on('state:clear') *)
StateClear(c) ==
  /\ Idle
  /\ conns[c] = "open"
  /\ IF ~MapHas(socketToRoom, c)
       THEN /\ reply' = [op |-> "state:clear", to |-> c, success |-> FALSE,
                         error |-> "not-in-room"]
            /\ emitted' = <<>>
            /\ UNCHANGED rooms
     ELSE IF ~socketToRoom[c].isOwner
       THEN /\ reply' = [op |-> "state:clear", to |-> c, success |-> FALSE,
                         error |-> "not-owner"]
            /\ emitted' = <<>>
            /\ UNCHANGED rooms
     ELSE LET roomId == socketToRoom[c].roomId
          IN IF MapHas(rooms, roomId)
               THEN /\ rooms' = [rooms EXCEPT ![roomId].currentState = Null]
                    /\ emitted' = <<clearAnnounce(c, roomId)>>
                    /\ reply' = [op |-> "state:clear", to |-> c, success |-> TRUE]
               ELSE /\ reply' = [op |-> "state:clear", to |-> c, success |-> FALSE,
                                 error |-> "room-not-found"]
                    /\ emitted' = <<>>
                    /\ UNCHANGED rooms
  /\ UNCHANGED <<conns, members, socketToRoom, subs, now, created, gone>>

(* if (roomInfo.isOwner) *)
ownerBeatNever(roomInfo) == FALSE

ownerBeatAnyMember(roomInfo) == TRUE

ownerBeat(roomInfo) == roomInfo.isOwner

(* socket.on('heartbeat') *)
Heartbeat(c) ==
  /\ Idle
  /\ conns[c] = "open"
  /\ IF ~MapHas(socketToRoom, c)
       THEN /\ emitted' = <<>>
            /\ UNCHANGED <<rooms, members>>
       ELSE LET roomInfo == socketToRoom[c]
                roomId == roomInfo.roomId
            IN /\ members' = IF MapHas(members, roomId)
                                  /\ MapHas(members[roomId], roomInfo.userId)
                               THEN [members EXCEPT
                                       ![roomId][roomInfo.userId].lastHeartbeat = now]
                               ELSE members
               /\ rooms' = IF ownerBeat(roomInfo) /\ MapHas(rooms, roomId)
                             THEN [rooms EXCEPT ![roomId].lastOwnerHeartbeat = now]
                             ELSE rooms
               /\ emitted' = <<[ev |-> "heartbeat:pong", room |-> 0, from |-> 0,
                                to |-> {c}, arg |-> now]>>
  /\ reply' = NoReply
  /\ UNCHANGED <<conns, socketToRoom, subs, now, created, gone>>

(* timeSinceHeartbeat > clearStateTimeout && room.currentState !== null *)
clearDueEvenIfNull(room, t) == t - room.lastOwnerHeartbeat > clearStateTimeout

clearDue(room, t) ==
  t - room.lastOwnerHeartbeat > clearStateTimeout /\ room.currentState # Null

(* timeSinceHeartbeat > deleteTimeout *)
deleteDueAtThreshold(room, t) == t - room.lastOwnerHeartbeat >= deleteTimeout

deleteDueOnlyIfAlone(room, t) ==
  t - room.lastOwnerHeartbeat > deleteTimeout /\ room.memberCount <= 1

deleteDue(room, t) == t - room.lastOwnerHeartbeat > deleteTimeout

(* the body of rooms.forEach in the cleanup timer, for one room *)
CleanupRoom(st, roomId, t) ==
  LET room == st.rooms[roomId]
      st1 == IF clearDue(room, t)
               THEN [st EXCEPT !.rooms[roomId].currentState = Null,
                               !.emitted = Append(@, IoTo(st.subs, roomId,
                                                          "state:cleared", Null))]
               ELSE st
  IN IF deleteDue(room, t)
       THEN deleteRoom(st1, roomId, "timer")
       ELSE st1

(* rooms.forEach visits the rooms in insertion order, the order of their ids *)
RECURSIVE CleanupFrom(_, _, _)
CleanupFrom(st, roomId, t) ==
  IF roomId > created THEN st
  ELSE CleanupFrom(IF MapHas(st.rooms, roomId) THEN CleanupRoom(st, roomId, t) ELSE st,
                   roomId + 1, t)

(* the setInterval callback of startCleanupTimer *)
CleanupTick ==
  LET st == CleanupFrom([rooms |-> rooms, members |-> members, subs |-> subs,
                         emitted |-> <<>>, gone |-> gone], 1, now)
  IN /\ Idle
     /\ rooms' = st.rooms
     /\ members' = st.members
     /\ emitted' = st.emitted
     /\ gone' = st.gone
     /\ reply' = NoReply
     /\ UNCHANGED <<conns, socketToRoom, subs, now, created>>

(* Date.now() moves on between two handlers *)
Advance(t) ==
  /\ Idle
  /\ t > now
  /\ now' = t
  /\ emitted' = <<>>
  /\ reply' = NoReply
  /\ UNCHANGED <<conns, rooms, members, socketToRoom, subs, created, gone>>

(* the transport takes the pending emissions and reply *)
Flush ==
  /\ ~Idle
  /\ emitted' = <<>>
  /\ reply' = NoReply
  /\ UNCHANGED <<conns, rooms, members, socketToRoom, subs, now, created, gone>>

Next ==
  \/ \E c \in Conns, t \in Tokens : Connect(c, t)
  \/ \E c \in Conns, pw \in OpenPasswords : RoomCreate(c, pw)
  \/ \E c \in Conns, r \in RoomIds, pw \in OpenJoinPasswords : RoomJoin(c, r, pw)
  \/ \E c \in Conns : RoomLeave(c)
  \/ \E c \in Conns : Disconnect(c)
  \/ \E c \in Conns, s \in PlayStates : PlayUpdate(c, s)
  \/ \E c \in Conns, s \in PlayStates : PlayChange(c, s)
  \/ \E c \in Conns, s \in PlayStates : LiveChange(c, s)
  \/ \E c \in Conns : PlaySeek(c)
  \/ \E c \in Conns : PlayPlay(c)
  \/ \E c \in Conns : PlayPause(c)
  \/ \E c \in Conns : ChatMessage(c)
  \/ \E c \in Conns : StateClear(c)
  \/ \E c \in Conns : Heartbeat(c)
  \/ CleanupTick
  \/ \E t \in Times : Advance(t)
  \/ Flush

(* every handler and the timer, on rooms without a password *)
Spec == Init /\ [][Next]_vars

(* every handler and the timer, a room being created only when no room is
   in the store *)
NextOneRoom ==
  \/ \E c \in Conns, t \in Tokens : Connect(c, t)
  \/ \E c \in Conns, pw \in OpenPasswords : DOMAIN rooms = {} /\ RoomCreate(c, pw)
  \/ \E c \in Conns, r \in RoomIds, pw \in OpenJoinPasswords : RoomJoin(c, r, pw)
  \/ \E c \in Conns : RoomLeave(c)
  \/ \E c \in Conns : Disconnect(c)
  \/ \E c \in Conns, s \in PlayStates : PlayUpdate(c, s)
  \/ \E c \in Conns, s \in PlayStates : PlayChange(c, s)
  \/ \E c \in Conns, s \in PlayStates : LiveChange(c, s)
  \/ \E c \in Conns : PlaySeek(c)
  \/ \E c \in Conns : PlayPlay(c)
  \/ \E c \in Conns : PlayPause(c)
  \/ \E c \in Conns : ChatMessage(c)
  \/ \E c \in Conns : StateClear(c)
  \/ \E c \in Conns : Heartbeat(c)
  \/ CleanupTick
  \/ \E t \in Times : Advance(t)
  \/ Flush

(* the scheduling of the event loop: the interval timer fires again and
   again whatever the clients send, the clock moves on, and the transport
   delivers what a handler emitted *)
SpecFair ==
  /\ Init /\ [][NextOneRoom]_vars
  /\ SF_vars(CleanupTick)
  /\ SF_vars(\E t \in Times : Advance(t))
  /\ WF_vars(Flush)

(* every handler and the timer at one instant, on rooms with and without a
   password *)
NextPassword ==
  \/ \E c \in Conns, t \in Tokens : Connect(c, t)
  \/ \E c \in Conns, pw \in CreatePasswords : RoomCreate(c, pw)
  \/ \E c \in Conns, r \in RoomIds, pw \in JoinPasswords : RoomJoin(c, r, pw)
  \/ \E c \in Conns : RoomLeave(c)
  \/ \E c \in Conns : Disconnect(c)
  \/ \E c \in Conns, s \in PlayStates : PlayUpdate(c, s)
  \/ \E c \in Conns, s \in PlayStates : PlayChange(c, s)
  \/ \E c \in Conns, s \in PlayStates : LiveChange(c, s)
  \/ \E c \in Conns : PlaySeek(c)
  \/ \E c \in Conns : PlayPlay(c)
  \/ \E c \in Conns : PlayPause(c)
  \/ \E c \in Conns : ChatMessage(c)
  \/ \E c \in Conns : StateClear(c)
  \/ \E c \in Conns : Heartbeat(c)
  \/ CleanupTick
  \/ Flush

SpecPassword == Init /\ [][NextPassword]_vars

(* ======================= properties of the server ====================== *)

(* the emissions of the handler that just ran, by event and room *)
EmissionsOf(seq, ev, r) == {i \in DOMAIN seq : seq[i].ev = ev /\ seq[i].room = r}
EmissionsTo(seq, r) == {i \in DOMAIN seq : seq[i].room = r}
OwnerEvents == {"play:update", "play:change", "live:change"}
(* the connected sockets among the entries of a room's membership map *)
LiveMembers(r) == {d \in DOMAIN members[r] : conns[d] = "open"}
StoreUnchanged == UNCHANGED <<rooms, members, socketToRoom, subs, gone>>

(* C1: every existing room's memberCount equals the number of entries of
   its membership map, after every handler and every timer tick. *)
C1_MemberCount ==
  \A r \in DOMAIN rooms :
    MapHas(members, r) /\ rooms[r].memberCount = Cardinality(DOMAIN members[r])

(* a member has just left a room that still has a member *)
C1_Witness ==
  \E r \in DOMAIN rooms :
    /\ EmissionsOf(emitted, "room:member-left", r) # {}
    /\ rooms[r].memberCount = 1
    /\ Cardinality(DOMAIN members[r]) = 1

(* C2: play:update, play:change and live:change change a room's playback
   state or emit a broadcast only for a room whose ownerId is the sender;
   from a connection that owns no room they change nothing and emit
   nothing. *)
C2_OwnerOnly ==
  [][\A c \in Conns, ev \in OwnerEvents, s \in PlayStates :
       OwnerStateEvent(c, ev, s) =>
         /\ DOMAIN rooms' = DOMAIN rooms
         /\ \A r \in DOMAIN rooms :
              (rooms'[r] # rooms[r] \/ EmissionsTo(emitted', r) # {})
                => rooms[r].ownerId = c
         /\ \A i \in DOMAIN emitted' : MapHas(rooms, emitted'[i].room)
         /\ (\A r \in DOMAIN rooms : rooms[r].ownerId # c)
              => rooms' = rooms /\ emitted' = <<>>
         /\ UNCHANGED <<members, socketToRoom, subs, gone>>]_vars

(* the owner's update has reached a guest of its room *)
C2_Witness ==
  \E i \in DOMAIN emitted :
    /\ emitted[i].ev \in OwnerEvents
    /\ emitted[i].to # {}
    /\ rooms[emitted[i].room].ownerId = emitted[i].from
    /\ rooms[emitted[i].room].currentState = emitted[i].arg

(* C3: when the last member of a room leaves or disconnects, the same step
   removes the room and its membership map and emits room:deleted for it
   as the last emission of the step; no later step emits anything for a
   room id deleted that way. *)
C3_LastLeave ==
  [][/\ \A c \in Conns :
          ((RoomLeave(c) \/ Disconnect(c)) /\ MapHas(socketToRoom, c))
            => LET r == socketToRoom[c].roomId
               IN (MapHas(members, r) /\ DOMAIN members[r] = {c})
                    => /\ ~MapHas(rooms', r)
                       /\ ~MapHas(members', r)
                       /\ Cardinality(EmissionsOf(emitted', "room:deleted", r)) = 1
                       /\ emitted'[Len(emitted')].ev = "room:deleted"
                       /\ emitted'[Len(emitted')].room = r
     /\ \A i \in DOMAIN emitted' :
          ~(MapHas(gone, emitted'[i].room) /\ gone[emitted'[i].room] = "leave")]_vars

(* the last member has just left and the room is gone *)
C3_Witness ==
  \E r \in DOMAIN gone :
    /\ gone[r] = "leave"
    /\ Len(emitted) = 2
    /\ emitted[1].ev = "room:member-left"
    /\ emitted[2].ev = "room:deleted"
    /\ emitted[2].room = r
    /\ ~MapHas(rooms, r)

(* C4: room:join for an existing room with a password, with another or no
   password, is answered with the bad-password failure and changes nothing:
   no membership, memberCount, session pointer or group changes and nothing
   is emitted. *)
C4_BadPassword ==
  [][\A c \in Conns, r \in RoomIds, pw \in JoinPasswords :
       (/\ RoomJoin(c, r, pw)
        /\ MapHas(rooms, r)
        /\ Truthy(rooms[r].password)
        /\ pw # rooms[r].password)
         => /\ reply' = [op |-> "room:join", to |-> c, success |-> FALSE,
                         error |-> "bad-password"]
            /\ emitted' = <<>>
            /\ StoreUnchanged]_vars

(* a join was refused for its password while the room has its owner in it *)
C4_Witness ==
  /\ reply.op = "room:join"
  /\ ~reply.success
  /\ reply.error = "bad-password"
  /\ \E r \in DOMAIN rooms : Truthy(rooms[r].password) /\ reply.to \notin DOMAIN members[r]

(* C5: a tick that finds a room's last owner heartbeat older than
   clearStateTimeout and its playback state not null emits state:cleared
   for it exactly once and leaves its state null; a tick that finds the
   state already null emits no state:cleared for it. *)
C5_ClearedOnce ==
  [][CleanupTick =>
       \A r \in DOMAIN rooms :
         LET n == Cardinality(EmissionsOf(emitted', "state:cleared", r))
         IN /\ (now - rooms[r].lastOwnerHeartbeat > clearStateTimeout
                  /\ rooms[r].currentState # Null)
                 => /\ n = 1
                    /\ MapHas(rooms', r) => rooms'[r].currentState = Null
            /\ rooms[r].currentState = Null => n = 0]_vars

(* the timer has just cleared the state of a room that stays in the store *)
C5_Witness ==
  \E r \in DOMAIN rooms :
    /\ rooms[r].currentState = Null
    /\ now - rooms[r].lastOwnerHeartbeat > clearStateTimeout
    /\ \E i \in DOMAIN emitted :
         emitted[i] = IoTo(subs, r, "state:cleared", Null)

(* C6: a tick that finds a room's last owner heartbeat older than
   deleteTimeout removes the room and its membership map and emits
   room:deleted for it, whoever is still a member. *)
C6_OwnerTimeout ==
  [][CleanupTick =>
       \A r \in DOMAIN rooms :
         now - rooms[r].lastOwnerHeartbeat > deleteTimeout
           => /\ ~MapHas(rooms', r)
              /\ ~MapHas(members', r)
              /\ Cardinality(EmissionsOf(emitted', "room:deleted", r)) = 1]_vars

(* the timer has deleted a room and told a guest of it, whose heartbeats
   kept coming *)
C6_Witness ==
  \E r \in DOMAIN gone, i \in DOMAIN emitted, d \in Conns :
    /\ gone[r] = "timer"
    /\ ~MapHas(rooms, r)
    /\ emitted[i].ev = "room:deleted"
    /\ emitted[i].room = r
    /\ d \in emitted[i].to
    /\ MapHas(socketToRoom, d)
    /\ socketToRoom[d] = [roomId |-> r, userId |-> d, isOwner |-> FALSE]

(* C7: every session pointer references a room that exists in the store. *)
C7_PointerHasRoom ==
  \A c \in DOMAIN socketToRoom : MapHas(rooms, socketToRoom[c].roomId)

(* C8: a successful room:join stores the caller as a guest member, sets its
   session pointer to the room as a guest, emits room:member-joined once,
   to the connected sockets that were members before and not to the caller,
   and replies with the membership map as it is after the join. *)
C8_Join ==
  [][\A c \in Conns, r \in RoomIds, pw \in JoinPasswords :
       (RoomJoin(c, r, pw) /\ reply'.success)
         => /\ MapHas(members', r)
            /\ DOMAIN members'[r] = DOMAIN members[r] \cup {c}
            /\ members'[r][c] = [isOwner |-> FALSE, lastHeartbeat |-> now]
            /\ \A d \in DOMAIN members[r] \ {c} : members'[r][d] = members[r][d]
            /\ socketToRoom' = MapSet(socketToRoom, c,
                                 [roomId |-> r, userId |-> c, isOwner |-> FALSE])
            /\ Len(emitted') = 1
            /\ emitted'[1].ev = "room:member-joined"
            /\ emitted'[1].room = r
            /\ emitted'[1].arg = c
            /\ emitted'[1].to = LiveMembers(r) \ {c}
            /\ reply'.to = c
            /\ reply'.members = members'[r]
            /\ c \in DOMAIN reply'.members]_vars

(* a join has been announced to the member that was in the room *)
C8_Witness ==
  /\ reply.op = "room:join"
  /\ reply.success
  /\ Cardinality(DOMAIN reply.members) = 2
  /\ Len(emitted) = 1
  /\ emitted[1].ev = "room:member-joined"
  /\ emitted[1].to = DOMAIN reply.members \ {reply.to}

(* C9 as stated: a heartbeat from the connection that is the ownerId of
   its room updates the room's lastOwnerHeartbeat. *)
C9_OwnerIdBeat ==
  [][\A c \in Conns :
       (Heartbeat(c) /\ MapHas(socketToRoom, c))
         => LET r == socketToRoom[c].roomId
            IN (MapHas(rooms, r) /\ rooms[r].ownerId = c)
                 => rooms'[r].lastOwnerHeartbeat = now]_vars

(* C9 as the code has it: a heartbeat from a connection with a session
   pointer sets its member entry's lastHeartbeat to the current time; it
   sets the room's lastOwnerHeartbeat exactly when the pointer carries the
   owner flag and the room exists, and changes nothing else; the pong goes
   to the caller alone. *)
C9_Heartbeat ==
  [][\A c \in Conns :
       (Heartbeat(c) /\ MapHas(socketToRoom, c))
         => LET r == socketToRoom[c].roomId
            IN /\ (MapHas(members, r) /\ MapHas(members[r], c))
                    => members' = [members EXCEPT ![r][c].lastHeartbeat = now]
               /\ (socketToRoom[c].isOwner /\ MapHas(rooms, r))
                    => rooms' = [rooms EXCEPT ![r].lastOwnerHeartbeat = now]
               /\ ~(socketToRoom[c].isOwner /\ MapHas(rooms, r))
                    => rooms' = rooms
               /\ Len(emitted') = 1
               /\ emitted'[1].ev = "heartbeat:pong"
               /\ emitted'[1].to = {c}
               /\ UNCHANGED <<socketToRoom, subs, gone>>]_vars

(* an owner's heartbeat after room creation has refreshed both timestamps *)
C9_Witness ==
  \E r \in DOMAIN rooms, c \in Conns :
    /\ now > 0
    /\ Len(emitted) = 1
    /\ emitted[1].ev = "heartbeat:pong"
    /\ emitted[1].to = {c}
    /\ MapHas(socketToRoom, c)
    /\ socketToRoom[c] = [roomId |-> r, userId |-> c, isOwner |-> TRUE]
    /\ rooms[r].lastOwnerHeartbeat = now
    /\ members[r][c].lastHeartbeat = now

(* C10: state:clear answers not-in-room without a session pointer,
   not-owner with a guest pointer, room-not-found when the owner pointer's
   room is gone, and success otherwise; only success sets the room's
   playback state to null and emits state:cleared, to the room's connected
   members except the caller; the failures change and emit nothing. *)
C10_StateClear ==
  [][\A c \in Conns :
       StateClear(c) =>
         LET fail(e) == /\ reply' = [op |-> "state:clear", to |-> c,
                                     success |-> FALSE, error |-> e]
                        /\ emitted' = <<>>
                        /\ StoreUnchanged
         IN IF ~MapHas(socketToRoom, c) THEN fail("not-in-room")
            ELSE IF ~socketToRoom[c].isOwner THEN fail("not-owner")
            ELSE IF ~MapHas(rooms, socketToRoom[c].roomId) THEN fail("room-not-found")
            ELSE LET r == socketToRoom[c].roomId
                 IN /\ reply' = [op |-> "state:clear", to |-> c, success |-> TRUE]
                    /\ rooms' = [rooms EXCEPT ![r].currentState = Null]
                    /\ Len(emitted') = 1
                    /\ emitted'[1].ev = "state:cleared"
                    /\ emitted'[1].room = r
                    /\ emitted'[1].to = LiveMembers(r) \ {c}
                    /\ UNCHANGED <<members, socketToRoom, subs, gone>>]_vars

(* an owner whose room the timer deleted was answered room-not-found *)
C10_Witness ==
  /\ reply.op = "state:clear"
  /\ ~reply.success
  /\ reply.error = "room-not-found"
  /\ MapHas(socketToRoom, reply.to)
  /\ socketToRoom[reply.to].isOwner

(* C11: a chat:message from a connection with a session pointer is emitted
   once, to the sender and to every connected member of the pointer's room;
   a chat:message is emitted for no connection without a session pointer. *)
C11_Chat ==
  [][/\ \A c \in Conns :
          (ChatMessage(c) /\ MapHas(socketToRoom, c))
            => LET r == socketToRoom[c].roomId
               IN /\ Len(emitted') = 1
                  /\ emitted'[1].ev = "chat:message"
                  /\ emitted'[1].room = r
                  /\ c \in emitted'[1].to
                  /\ MapHas(members, r) => LiveMembers(r) \subseteq emitted'[1].to
                  /\ StoreUnchanged
     /\ \A i \in DOMAIN emitted' :
          emitted'[i].ev = "chat:message"
            => /\ MapHas(socketToRoom, emitted'[i].arg)
               /\ socketToRoom[emitted'[i].arg].roomId = emitted'[i].room]_vars

(* a chat message has reached its sender and the other member of the room *)
C11_Witness ==
  /\ Len(emitted) = 1
  /\ emitted[1].ev = "chat:message"
  /\ MapHas(members, emitted[1].room)
  /\ Cardinality(DOMAIN members[emitted[1].room]) = 2
  /\ emitted[1].to = DOMAIN members[emitted[1].room]
  /\ emitted[1].arg \in emitted[1].to

(* C12: the rooms with a Room are the rooms with a membership map, and the
   membership map of every existing room has an entry. *)
C12_NoEmptyRoom ==
  /\ DOMAIN rooms = DOMAIN members
  /\ \A r \in DOMAIN members : DOMAIN members[r] # {}

(* one room has lost its last member and is gone while another is in the
   store *)
C12_Witness ==
  /\ \E r \in DOMAIN gone : gone[r] = "leave"
  /\ DOMAIN rooms # {}
  /\ \E i \in DOMAIN emitted : emitted[i].ev = "room:member-left"

(* C13: a tick emits no state:cleared for and does not change a room whose
   last owner heartbeat is at most clearStateTimeout old, and neither
   removes nor announces as deleted a room whose last owner heartbeat is at
   most deleteTimeout old. *)
C13_Thresholds ==
  [][CleanupTick =>
       \A r \in DOMAIN rooms :
         /\ now - rooms[r].lastOwnerHeartbeat <= clearStateTimeout
              => /\ EmissionsTo(emitted', r) = {}
                 /\ MapHas(rooms', r)
                 /\ rooms'[r] = rooms[r]
         /\ now - rooms[r].lastOwnerHeartbeat <= deleteTimeout
              => /\ EmissionsOf(emitted', "room:deleted", r) = {}
                 /\ MapHas(rooms', r)
                 /\ MapHas(members', r)
                 /\ members'[r] = members[r]]_vars

(* a tick has cleared the state of a room whose owner heartbeat is exactly
   deleteTimeout old, and the room is still there *)
C13_Witness ==
  \E r \in DOMAIN rooms :
    /\ now - rooms[r].lastOwnerHeartbeat = deleteTimeout
    /\ EmissionsOf(emitted, "state:cleared", r) # {}
    /\ emitted[1].from = 0

(* C14: room:deleted is emitted for a room id only by a step that finds the
   room in the store, once in that step, never for an id it was emitted for
   before, and the step removes the room. *)
C14_DeletedOnce ==
  [][\A i \in DOMAIN emitted' :
       emitted'[i].ev = "room:deleted"
         => LET r == emitted'[i].room
            IN /\ MapHas(rooms, r)
               /\ ~MapHas(gone, r)
               /\ Cardinality(EmissionsOf(emitted', "room:deleted", r)) = 1
               /\ ~MapHas(rooms', r)
               /\ MapHas(gone', r)]_vars

(* the timer deleted the only room ever created and its members' sockets
   have since left or disconnected *)
C14_Witness ==
  /\ created = 1
  /\ MapHas(gone, 1)
  /\ gone[1] = "timer"
  /\ socketToRoom = EmptyMap
  /\ \A c \in Conns : subs[c] = {}
  /\ Idle

(* the entries of room r's membership map, none when the room has no map *)
Entries(ms, r) == IF MapHas(ms, r) THEN DOMAIN ms[r] ELSE {}

(* a connection's session pointer exists and references room r *)
PointsTo(c, r) == MapHas(socketToRoom, c) /\ socketToRoom[c].roomId = r

(* the connection that created room r holds no owner-flagged pointer to it *)
OwnerGone(r) ==
  /\ MapHas(rooms, r)
  /\ LET o == rooms[r].ownerId
     IN ~(/\ MapHas(socketToRoom, o)
          /\ socketToRoom[o].roomId = r
          /\ socketToRoom[o].isOwner)

(* the clock of the model can pass the delete threshold of room r *)
CanExpire(r) == \E t \in Times : t - rooms[r].lastOwnerHeartbeat > deleteTimeout

(* the steps of C15: a leave or disconnect of the owner while another
   entry remains keeps the room, and a room whose owner holds no owner
   pointer keeps its lastOwnerHeartbeat and stays without one *)
OwnerLossStep ==
  \A r \in DOMAIN rooms :
    /\ \A c \in Conns :
         (/\ RoomLeave(c) \/ Disconnect(c)
          /\ MapHas(socketToRoom, c)
          /\ socketToRoom[c].roomId = r
          /\ socketToRoom[c].isOwner
          /\ DOMAIN members[r] \ {c} # {})
           => /\ MapHas(rooms', r)
              /\ EmissionsOf(emitted', "room:deleted", r) = {}
              /\ OwnerGone(r)'
    /\ (OwnerGone(r) /\ MapHas(rooms', r))
         => /\ rooms'[r].lastOwnerHeartbeat = rooms[r].lastOwnerHeartbeat
            /\ OwnerGone(r)'
    /\ (CleanupTick /\ OwnerGone(r) /\ deleteDue(rooms[r], now))
         => /\ ~MapHas(rooms', r)
            /\ EmissionsOf(emitted', "room:deleted", r) # {}

(* C15: a leave or disconnect of the owner while another entry remains
   does not delete the room; while the owner holds no owner pointer to the
   room no step changes its lastOwnerHeartbeat or gives the pointer back;
   a tick past the delete threshold deletes the room; and with the timer
   firing and the clock moving on, such a room is eventually out of the
   store. *)
C15_OwnerLoss ==
  /\ [][OwnerLossStep]_vars
  /\ \A r \in RoomIds :
       (OwnerGone(r) /\ CanExpire(r)) ~> ~MapHas(rooms, r)

(* both connections hold guest pointers to the room, so the connection
   that created it has lost its owner pointer and joined again as a guest,
   and the timer has just deleted the room *)
C15_Witness ==
  \E r \in DOMAIN gone :
    /\ gone[r] = "timer"
    /\ \A c \in Conns : PointsTo(c, r) /\ ~socketToRoom[c].isOwner
    /\ EmissionsOf(emitted, "room:deleted", r) # {}

(* C16: every emission to a room reaches only connections that are entries
   of the room's membership map during the step, reaches every connected
   entry of the map the step leaves, and leaves out the sender when the
   broadcast excludes it. *)
C16_OnlyMembers ==
  [][\A i \in DOMAIN emitted' :
       emitted'[i].room # 0
         => LET e == emitted'[i]
            IN /\ e.to \subseteq Entries(members, e.room) \cup Entries(members', e.room)
               /\ {d \in Entries(members', e.room) : conns'[d] = "open"} \ {e.from}
                    \subseteq e.to
               /\ e.from \notin e.to]_vars

(* C17: a connection is an entry of a room's membership map exactly when
   its session pointer exists and references that room, and a closed
   connection is an entry of no map. *)
C17_MemberIffPointer ==
  \A c \in Conns :
    /\ \A r \in RoomIds : c \in Entries(members, r) <=> PointsTo(c, r)
    /\ conns[c] = "closed" => \A r \in RoomIds : c \notin Entries(members, r)

C19_DeletedIsFinal ==
  [][\A i \in DOMAIN emitted' :
       emitted'[i].room # 0 => ~MapHas(gone, emitted'[i].room)]_vars

(* C20: a connection is subscribed to no group when it has no session
   pointer and to the group of its pointer's room only when it has one. *)
C20_SubsIsPointer ==
  \A c \in Conns :
    subs[c] = IF MapHas(socketToRoom, c) THEN {socketToRoom[c].roomId} ELSE {}
====
